---- MODULE Spec2Model ----
(***************************************************************************)
(* A model of the Attio MCP server's tool functions: the forty-three       *)
(* functions of the eight tools modules (attributes, entries, lists,       *)
(* notes, objects, records, tasks, workspace_members) and the two tools    *)
(* main.py defines itself (health_check, test_attio_connection).           *)
(*                                                                         *)
(* Python values are modelled as tagged records (JNull, JNum, JStr, JArr,  *)
(* JObj).  A Python str is a sequence of chunks, so that an f-string is    *)
(* the concatenation of its pieces; the text of an HTTP body is the        *)
(* sequence of its JSON tokens, written by Dumps and read by Loads.        *)
(*                                                                         *)
(* Three specifications: Spec, one invocation at a time over every tool;   *)
(* StartupSpec, the __main__ block of main.py over the TRANSPORT and PORT  *)
(* values of the environment; ConcurrentSpec, two invocations interleaved. *)
(***************************************************************************)
EXTENDS Integers, Sequences, FiniteSets, TLC

(***************************************************************************)
(* Python / JSON values                                                    *)
(***************************************************************************)
JNull == [t |-> "null"]
JNum(n) == [t |-> "num", n |-> n]
JStr(s) == [t |-> "str", s |-> s]
JArr(a) == [t |-> "arr", a |-> a]
JObj(m) == [t |-> "obj", m |-> m]

\* A str of one chunk, and the empty dict.
Str(c) == JStr(<<c>>)
EmptyDict == JObj(<<>>)

\* Python truthiness, as `if not API_KEY`, `if filter_criteria`, `if sorts` use it.
Truthy(v) ==
    CASE v.t = "null" -> FALSE
      [] v.t = "num" -> v.n # 0
      [] v.t = "str" -> Len(v.s) > 0
      [] v.t = "arr" -> Len(v.a) > 0
      [] v.t = "obj" -> DOMAIN v.m # {}

\* `x is not None`
IsNotNone(v) == v.t # "null"

Has(d, k) == d.t = "obj" /\ k \in DOMAIN d.m

(***************************************************************************)
(* JSON text: json.dumps with compact separators (what httpx sends for     *)
(* json=...), and json.loads (what response.json() does).                  *)
(***************************************************************************)
Quote == "\""

\* The integers a JSON number token of the model may denote.
MaxNum == 500
JsonNumbers == 0..MaxNum

RECURSIVE KeySeq(_)
KeySeq(S) ==
    IF S = {} THEN <<>>
    ELSE LET k == CHOOSE x \in S : TRUE IN <<k>> \o KeySeq(S \ {k})

RECURSIVE Dumps(_)
RECURSIVE DumpsElems(_)
RECURSIVE DumpsMembers(_, _)
DumpsElems(a) ==
    IF Len(a) = 0 THEN <<>>
    ELSE IF Len(a) = 1 THEN Dumps(a[1])
    ELSE Dumps(a[1]) \o <<",">> \o DumpsElems(Tail(a))
DumpsMembers(m, ks) ==
    IF Len(ks) = 0 THEN <<>>
    ELSE LET one == <<Quote, ks[1], Quote, ":">> \o Dumps(m[ks[1]])
         IN IF Len(ks) = 1 THEN one
            ELSE one \o <<",">> \o DumpsMembers(m, Tail(ks))
Dumps(v) ==
    CASE v.t = "null" -> <<"null">>
      [] v.t = "num" -> <<ToString(v.n)>>
      [] v.t = "str" -> <<Quote>> \o v.s \o <<Quote>>
      [] v.t = "arr" -> <<"[">> \o DumpsElems(v.a) \o <<"]">>
      [] v.t = "obj" -> <<"{">> \o DumpsMembers(v.m, KeySeq(DOMAIN v.m)) \o <<"}">>

\* The result of a parse step: ok, the value read, the tokens left.
ParseFail == [ok |-> FALSE, val |-> JNull, rest |-> <<>>]
Parsed(v, rest) == [ok |-> TRUE, val |-> v, rest |-> rest]

IsNumberToken(tok) == \E n \in JsonNumbers : ToString(n) = tok
NumberOf(tok) == CHOOSE n \in JsonNumbers : ToString(n) = tok

\* The index of the first closing quote of toks, 0 when there is none.
ClosingQuote(toks) ==
    LET I == {i \in 1..Len(toks) : toks[i] = Quote}
    IN IF I = {} THEN 0 ELSE CHOOSE i \in I : \A j \in I : i <= j

RECURSIVE ParseValue(_)
RECURSIVE ParseElems(_, _)
RECURSIVE ParseMembers(_, _)
\* toks stands at the first element of a non-empty array; acc holds the elements read.
ParseElems(toks, acc) ==
    LET r == ParseValue(toks)
    IN IF ~r.ok \/ Len(r.rest) = 0 THEN ParseFail
       ELSE IF Head(r.rest) = "]" THEN Parsed(JArr(Append(acc, r.val)), Tail(r.rest))
       ELSE IF Head(r.rest) = "," THEN ParseElems(Tail(r.rest), Append(acc, r.val))
       ELSE ParseFail
\* toks stands at the first member of a non-empty object; acc holds the members read.
ParseMembers(toks, acc) ==
    IF Len(toks) < 4 \/ toks[1] # Quote \/ toks[3] # Quote \/ toks[4] # ":"
    THEN ParseFail
    ELSE LET k == toks[2]
             r == ParseValue(SubSeq(toks, 5, Len(toks)))
         IN IF ~r.ok \/ Len(r.rest) = 0 THEN ParseFail
            ELSE LET m == (k :> r.val) @@ acc
                 IN IF Head(r.rest) = "}" THEN Parsed(JObj(m), Tail(r.rest))
                    ELSE IF Head(r.rest) = "," THEN ParseMembers(Tail(r.rest), m)
                    ELSE ParseFail
ParseValue(toks) ==
    IF Len(toks) = 0 THEN ParseFail
    ELSE LET h == Head(toks)
             rest == Tail(toks)
         IN CASE h = "null" -> Parsed(JNull, rest)
              [] h = Quote ->
                    LET q == ClosingQuote(rest)
                    IN IF q = 0 THEN ParseFail
                       ELSE Parsed(JStr(SubSeq(rest, 1, q - 1)), SubSeq(rest, q + 1, Len(rest)))
              [] h = "[" ->
                    IF Len(rest) > 0 /\ Head(rest) = "]" THEN Parsed(JArr(<<>>), Tail(rest))
                    ELSE ParseElems(rest, <<>>)
              [] h = "{" ->
                    IF Len(rest) > 0 /\ Head(rest) = "}" THEN Parsed(EmptyDict, Tail(rest))
                    ELSE ParseMembers(rest, <<>>)
              [] OTHER ->
                    IF IsNumberToken(h) THEN Parsed(JNum(NumberOf(h)), rest) ELSE ParseFail

\* json.loads: the decoded value, or not ok (a ValueError) when the text is
\* not one JSON value.
Loads(text) ==
    LET r == ParseValue(text)
    IN IF r.ok /\ Len(r.rest) = 0 THEN [ok |-> TRUE, val |-> r.val]
       ELSE [ok |-> FALSE, val |-> JNull]

(***************************************************************************)
(* Configuration (config.py) and the tools                                 *)
(***************************************************************************)
BASE_URL == "https://api.attio.com"

\* The values os.getenv("API_KEY") can give: None, the empty string, a key.
ApiKeys == {JNull, JStr(<<>>), Str("sk_live_1")}

AttributesTools ==
    {"list_attributes", "create_attribute", "get_attribute", "update_attribute",
     "list_select_options", "create_select_option", "update_select_option",
     "list_statuses", "create_status", "update_status"}
EntriesTools ==
    {"create_list_entry", "get_list_entry", "list_entries",
     "update_list_entry_overwrite", "update_list_entry_append",
     "delete_list_entry", "get_list_entry_attribute_values"}
ListsTools == {"list_lists", "create_list", "get_list", "update_list"}
NotesTools == {"list_notes", "create_note", "get_note", "delete_note"}
ObjectsTools == {"list_objects", "create_object", "get_object", "update_object"}
RecordsTools ==
    {"get_record", "update_record_overwrite", "update_record_append",
     "delete_record", "list_record_entries", "list_records", "create_record"}
TasksTools == {"list_tasks", "create_task", "get_task", "update_task", "delete_task"}
WorkspaceMembersTools == {"list_workspace_members", "get_workspace_member"}

\* The tool functions of the tools modules: each makes the one API call.
ApiTools ==
    AttributesTools \cup EntriesTools \cup ListsTools \cup NotesTools
        \cup ObjectsTools \cup RecordsTools \cup TasksTools \cup WorkspaceMembersTools
\* The tools main.py defines itself.
MainTools == {"health_check", "test_attio_connection"}
Tools == ApiTools \cup MainTools

\* The tool function an invocation of t runs for its API call:
\* test_attio_connection awaits list_workspace_members.
Callee(t) == IF t = "test_attio_connection" THEN "list_workspace_members" ELSE t

CreateTools ==
    {"create_attribute", "create_select_option", "create_status", "create_list_entry",
     "create_list", "create_note", "create_object", "create_record", "create_task"}
UpdateTools ==
    {"update_attribute", "update_select_option", "update_status",
     "update_list_entry_overwrite", "update_list_entry_append", "update_list",
     "update_object", "update_record_overwrite", "update_record_append", "update_task"}
DeleteTools == {"delete_list_entry", "delete_record", "delete_note", "delete_task"}
QueryTools == {"list_entries", "list_records"}
\* The list tools that pass limit and offset as query-string parameters.
PagedGetTools ==
    {"list_attributes", "list_select_options", "list_statuses", "list_lists",
     "list_objects", "list_record_entries"}

(***************************************************************************)
(* Arguments.  An invocation's arguments are one record: target_type, the  *)
(* identifiers in the order of the function's parameters (id1, id2, id3),  *)
(* the data dict of a create or update tool, filter_criteria, sorts, limit *)
(* and offset; a parameter the function does not have keeps its filler.    *)
(***************************************************************************)
TargetTypes == {"objects", "lists", "object", ""}
FirstIds == {"abc", "people"}
SecondIds == {"e1"}
ThirdIds == {"o1"}

\* The number of identifier parameters of each tool function.
IdCount(t) ==
    CASE t \in {"list_lists", "create_list", "list_notes", "create_note", "list_objects",
                "create_object", "list_tasks", "create_task", "list_workspace_members"} -> 0
      [] t \in {"list_attributes", "create_attribute", "create_list_entry", "list_entries",
                "get_list", "update_list", "get_note", "delete_note", "get_object",
                "update_object", "list_records", "create_record", "get_task", "update_task",
                "delete_task", "get_workspace_member"} -> 1
      [] t \in {"get_attribute", "update_attribute", "list_select_options",
                "create_select_option", "list_statuses", "create_status", "get_list_entry",
                "update_list_entry_overwrite", "update_list_entry_append",
                "delete_list_entry", "get_record", "update_record_overwrite",
                "update_record_append", "delete_record", "list_record_entries"} -> 2
      [] t \in {"update_select_option", "update_status",
                "get_list_entry_attribute_values"} -> 3

MaxOffset == 1
Limits == {JNull} \cup {JNum(n) : n \in {0, 10, 50, 500}}
Offsets == {JNull} \cup {JNum(n) : n \in 0..MaxOffset}
\* limit and offset of the two query tools are ints.
IntLimits == {v \in Limits : v.t = "num"}
IntOffsets == {v \in Offsets : v.t = "num"}

DataDicts ==
    {EmptyDict,
     JObj([name |-> Str("Ada")]),
     JObj([values |-> JObj([name |-> Str("Ada"), tags |-> JArr(<<Str("a"), JNum(2)>>)]),
           data |-> JNull])}
Filters == {JNull, EmptyDict, JObj([name |-> JObj([eq |-> Str("Ada Lovelace")])])}
Sorts ==
    {JNull, JArr(<<>>), JArr(<<JObj([attribute |-> Str("name"), direction |-> Str("asc")])>>)}

NoArgs ==
    [target_type |-> "", id1 |-> "", id2 |-> "", id3 |-> "", data |-> JNull,
     filter_criteria |-> JNull, sorts |-> JNull, limit |-> JNull, offset |-> JNull]

\* The argument records an invocation of tool function t can be given.
ArgsOf(t) ==
    {[target_type |-> tt, id1 |-> i1, id2 |-> i2, id3 |-> i3, data |-> d,
      filter_criteria |-> f, sorts |-> s, limit |-> l, offset |-> o] :
        tt \in (IF t \in AttributesTools THEN TargetTypes ELSE {""}),
        i1 \in (IF IdCount(t) >= 1 THEN FirstIds ELSE {""}),
        i2 \in (IF IdCount(t) >= 2 THEN SecondIds ELSE {""}),
        i3 \in (IF IdCount(t) >= 3 THEN ThirdIds ELSE {""}),
        d \in (IF t \in CreateTools \cup UpdateTools THEN DataDicts ELSE {JNull}),
        f \in (IF t \in QueryTools THEN Filters ELSE {JNull}),
        s \in (IF t \in QueryTools THEN Sorts ELSE {JNull}),
        l \in (IF t \in QueryTools THEN IntLimits
               ELSE IF t \in PagedGetTools THEN Limits ELSE {JNull}),
        o \in (IF t \in QueryTools THEN IntOffsets
               ELSE IF t \in PagedGetTools THEN Offsets ELSE {JNull})}

(***************************************************************************)
(* The request a tool function builds                                      *)
(***************************************************************************)
GetTools ==
    {"list_attributes", "get_attribute", "list_select_options", "list_statuses",
     "get_list_entry", "get_list_entry_attribute_values", "list_lists", "get_list",
     "list_notes", "get_note", "list_objects", "get_object", "get_record",
     "list_record_entries", "list_tasks", "get_task", "list_workspace_members",
     "get_workspace_member"}
PutTools == {"update_list_entry_overwrite", "update_record_overwrite"}
PatchTools == UpdateTools \ PutTools
PostTools == CreateTools \cup QueryTools

\* Mutant: the overwrite tools send PATCH like the append tools.
HttpMethod_OverwritePatches(t) ==
    CASE t \in GetTools -> "GET"
      [] t \in PostTools -> "POST"
      [] t \in PutTools \cup PatchTools -> "PATCH"
      [] t \in DeleteTools -> "DELETE"
\* client.get / client.post / client.put / client.patch / client.delete
HttpMethod(t) ==
    CASE t \in GetTools -> "GET"
      [] t \in PostTools -> "POST"
      [] t \in PutTools -> "PUT"
      [] t \in PatchTools -> "PATCH"
      [] t \in DeleteTools -> "DELETE"

\* The path each function interpolates after BASE_URL: the pieces of its
\* f-string, literal text and arguments in turn.
Path(t, a) ==
    CASE t \in {"list_attributes", "create_attribute"} ->
            <<"/v2/", a.target_type, "/", a.id1, "/attributes">>
      [] t \in {"get_attribute", "update_attribute"} ->
            <<"/v2/", a.target_type, "/", a.id1, "/attributes/", a.id2>>
      [] t \in {"list_select_options", "create_select_option"} ->
            <<"/v2/", a.target_type, "/", a.id1, "/attributes/", a.id2, "/options">>
      [] t = "update_select_option" ->
            <<"/v2/", a.target_type, "/", a.id1, "/attributes/", a.id2, "/options/", a.id3>>
      [] t \in {"list_statuses", "create_status"} ->
            <<"/v2/", a.target_type, "/", a.id1, "/attributes/", a.id2, "/statuses">>
      [] t = "update_status" ->
            <<"/v2/", a.target_type, "/", a.id1, "/attributes/", a.id2, "/statuses/", a.id3>>
      [] t = "create_list_entry" -> <<"/v2/lists/", a.id1, "/entries">>
      [] t = "list_entries" -> <<"/v2/lists/", a.id1, "/entries/query">>
      [] t \in {"get_list_entry", "update_list_entry_overwrite",
                "update_list_entry_append", "delete_list_entry"} ->
            <<"/v2/lists/", a.id1, "/entries/", a.id2>>
      [] t = "get_list_entry_attribute_values" ->
            <<"/v2/lists/", a.id1, "/entries/", a.id2, "/attributes/", a.id3, "/values">>
      [] t \in {"list_lists", "create_list"} -> <<"/v2/lists">>
      [] t \in {"get_list", "update_list"} -> <<"/v2/lists/", a.id1>>
      [] t \in {"list_notes", "create_note"} -> <<"/v2/notes">>
      [] t \in {"get_note", "delete_note"} -> <<"/v2/notes/", a.id1>>
      [] t \in {"list_objects", "create_object"} -> <<"/v2/objects">>
      [] t \in {"get_object", "update_object"} -> <<"/v2/objects/", a.id1>>
      [] t = "create_record" -> <<"/v2/objects/", a.id1, "/records">>
      [] t = "list_records" -> <<"/v2/objects/", a.id1, "/records/query">>
      [] t \in {"get_record", "update_record_overwrite", "update_record_append",
                "delete_record"} -> <<"/v2/objects/", a.id1, "/records/", a.id2>>
      [] t = "list_record_entries" ->
            <<"/v2/objects/", a.id1, "/records/", a.id2, "/entries">>
      [] t \in {"list_tasks", "create_task"} -> <<"/v2/tasks">>
      [] t \in {"get_task", "update_task", "delete_task"} -> <<"/v2/tasks/", a.id1>>
      [] t = "list_workspace_members" -> <<"/v2/workspace_members">>
      [] t = "get_workspace_member" -> <<"/v2/workspace_members/", a.id1>>

\* url = f"{BASE_URL}/v2/..."
Url(t, a) == <<BASE_URL>> \o Path(t, a)

\* The tools that send a JSON body (json=payload).
BodyTools == CreateTools \cup UpdateTools \cup QueryTools

\* Mutant: Content-Type set on every request, body or not.
Headers_AlwaysContentType(t, key) ==
    ("Content-Type" :> <<"application/json">>) @@ [Authorization |-> <<"Bearer ">> \o key.s]
\* headers = {"Authorization": f"Bearer {API_KEY}"[, "Content-Type": "application/json"]}
Headers(t, key) ==
    LET auth == [Authorization |-> <<"Bearer ">> \o key.s]
    IN IF t \in BodyTools THEN ("Content-Type" :> <<"application/json">>) @@ auth
       ELSE auth

\* Mutant: a limit above 50 is clamped to 50.
Params_ClampedLimit(t, a) ==
    LET lim == IF a.limit.t = "num" /\ a.limit.n > 50 THEN JNum(50) ELSE a.limit
    IN CASE t \in {"list_attributes", "list_select_options", "list_statuses", "list_objects"} ->
               JObj([limit |-> lim, offset |-> a.offset])
         [] t \in {"list_lists", "list_record_entries"} ->
               JObj((IF IsNotNone(lim) THEN ("limit" :> lim) ELSE <<>>)
                    @@ (IF IsNotNone(a.offset) THEN ("offset" :> a.offset) ELSE <<>>))
         [] OTHER -> JNull
\* Mutant: the query tools also pass limit and offset as query-string parameters.
Params_QueryInQueryString(t, a) ==
    CASE t \in {"list_attributes", "list_select_options", "list_statuses", "list_objects",
                "list_entries", "list_records"} ->
            JObj([limit |-> a.limit, offset |-> a.offset])
      [] t \in {"list_lists", "list_record_entries"} ->
            JObj((IF IsNotNone(a.limit) THEN ("limit" :> a.limit) ELSE <<>>)
                 @@ (IF IsNotNone(a.offset) THEN ("offset" :> a.offset) ELSE <<>>))
      [] OTHER -> JNull
\* params: JNull when the call passes none.
Params(t, a) ==
    CASE t \in {"list_attributes", "list_select_options", "list_statuses", "list_objects"} ->
            JObj([limit |-> a.limit, offset |-> a.offset])
      [] t \in {"list_lists", "list_record_entries"} ->
            JObj((IF IsNotNone(a.limit) THEN ("limit" :> a.limit) ELSE <<>>)
                 @@ (IF IsNotNone(a.offset) THEN ("offset" :> a.offset) ELSE <<>>))
      [] OTHER -> JNull

\* Mutant: filter and sorts always sent, None when omitted.
QueryPayload_AlwaysKeys(a) ==
    JObj([limit |-> a.limit, offset |-> a.offset,
          filter |-> a.filter_criteria, sorts |-> a.sorts])

\* Mutant: filter and sorts tested with `is not None`, so that {} and [] are sent.
QueryPayload_NotNoneTest(a) ==
    JObj((IF IsNotNone(a.sorts) THEN ("sorts" :> a.sorts) ELSE <<>>)
         @@ (IF IsNotNone(a.filter_criteria) THEN ("filter" :> a.filter_criteria) ELSE <<>>)
         @@ [limit |-> a.limit, offset |-> a.offset])
\* payload = {"limit": limit, "offset": offset}, plus filter and sorts when truthy
QueryPayload(a) ==
    JObj((IF Truthy(a.sorts) THEN ("sorts" :> a.sorts) ELSE <<>>)
         @@ (IF Truthy(a.filter_criteria) THEN ("filter" :> a.filter_criteria) ELSE <<>>)
         @@ [limit |-> a.limit, offset |-> a.offset])

\* Mutant: the data dict sent as the body itself, without the {"data": ...} wrapping.
Payload_Unwrapped(t, a) ==
    CASE t \in CreateTools \cup UpdateTools -> a.data
      [] t = "list_entries" -> QueryPayload(a)
      [] t = "list_records" -> JObj([data |-> QueryPayload(a)])
      [] OTHER -> JNull

\* payload = {"data": ...}: the value passed as json=
Payload(t, a) ==
    CASE t \in CreateTools \cup UpdateTools -> JObj([data |-> a.data])
      [] t = "list_entries" -> QueryPayload(a)
      [] t = "list_records" -> JObj([data |-> QueryPayload(a)])
      [] OTHER -> JNull

\* The one request of tool function t: content is the body httpx writes for json=.
BuildRequest(t, a, key) ==
    [method |-> HttpMethod(t),
     url |-> Url(t, a),
     headers |-> Headers(t, key),
     params |-> Params(t, a),
     hasJson |-> t \in BodyTools,
     json |-> Payload(t, a),
     content |-> IF t \in BodyTools THEN Dumps(Payload(t, a)) ELSE <<>>]

(***************************************************************************)
(* Results                                                                 *)
(***************************************************************************)
NoResult == [none |-> "result"]
NoResponse == [none |-> "response"]
Returned(v) == [kind |-> "return", value |-> v]
Raised(e) == [kind |-> "raise", value |-> e]

CredentialError == JObj([error |-> Str("API_KEY environment variable not set.")])
TargetTypeError == JObj([error |-> Str("Invalid target_type. Must be 'objects' or 'lists'.")])
ValidTargetTypes == {"objects", "lists"}

\* Mutant: the credential check as `if API_KEY is None` (an empty key passes).
Rejection_KeyNoneOnly(t, a, key) ==
    IF key = JNull THEN CredentialError
    ELSE IF t \in AttributesTools /\ a.target_type \notin ValidTargetTypes
    THEN TargetTypeError
    ELSE NoResult

\* Mutant: the target_type check left out.
Rejection_NoTargetTypeCheck(t, a, key) ==
    IF ~Truthy(key) THEN CredentialError ELSE NoResult

\* Mutant: the target_type check made before the credential check.
Rejection_TargetTypeFirst(t, a, key) ==
    IF t \in AttributesTools /\ a.target_type \notin ValidTargetTypes THEN TargetTypeError
    ELSE IF ~Truthy(key) THEN CredentialError
    ELSE NoResult
\* The checks before the request: the result returned, NoResult when both pass.
Rejection(t, a, key) ==
    IF ~Truthy(key) THEN CredentialError
    ELSE IF t \in AttributesTools /\ a.target_type \notin ValidTargetTypes
    THEN TargetTypeError
    ELSE NoResult

\* Mutant: raise_for_status raises for 4xx and 5xx only.
IsSuccess_BelowClientError(status_code) == status_code < 400
\* response.raise_for_status() raises HTTPStatusError unless the status is 2xx.
IsSuccess(status_code) == status_code \in 200..299

\* The modules whose handlers decode the error body and read e.request.url.
DecodingTools == EntriesTools \cup ListsTools \cup RecordsTools

JSONDecodeErrorMessage == <<"Expecting value: line 1 column 1 (char 0)">>
UnexpectedError(message) ==
    JObj([error |-> JStr(<<"An unexpected error occurred: ">> \o message)])

\* The deleted-successfully results of the three functions that test for 204.
DeletedResult(t, a) ==
    CASE t = "delete_record" ->
            JObj([status |-> Str("success"),
                  message |-> JStr(<<"Record ", a.id2, " deleted successfully.">>)])
      [] t = "delete_note" ->
            JObj([message |-> JStr(<<"Note ", a.id1, " deleted successfully.">>)])
      [] t = "delete_task" ->
            JObj([message |-> JStr(<<"Task ", a.id1, " deleted successfully.">>)])

\* The tools that test response.status_code == 204 before response.json().
NoContentTools == {"delete_record", "delete_note", "delete_task"}

\* Mutant: a 2xx body that is not JSON is returned as its text.
ReturnJson_TextFallback(text) ==
    LET r == Loads(text) IN IF r.ok THEN r.val ELSE JStr(text)
\* return response.json(), a failure of which the `except Exception` clause reports
ReturnJson(text) ==
    LET r == Loads(text)
    IN IF r.ok THEN r.val ELSE UnexpectedError(JSONDecodeErrorMessage)

\* Mutant: the 204 test of the delete functions widened to every 2xx status.
OnSuccess_AnyStatusDeleted(t, a, resp) ==
    IF t \in NoContentTools THEN DeletedResult(t, a) ELSE ReturnJson(resp.text)

\* The try block after raise_for_status passed.
OnSuccess(t, a, resp) ==
    IF t \in NoContentTools /\ resp.status_code = 204 THEN DeletedResult(t, a)
    ELSE ReturnJson(resp.text)

\* Mutant: no fallback to the text when the error body is not JSON.
ErrorDetails_NoFallback(text) == Loads(text).val

\* error_details: e.response.json(), or e.response.text on ValueError
ErrorDetails(text) ==
    LET r == Loads(text) IN IF r.ok THEN r.val ELSE JStr(text)

\* except httpx.HTTPStatusError
OnHTTPStatusError(t, a, resp) ==
    IF t \in DecodingTools
    THEN IF t = "delete_record" /\ resp.status_code = 204 THEN DeletedResult(t, a)
         ELSE JObj([error |-> JStr(<<"API request failed with status ",
                                     ToString(resp.status_code)>>),
                    details |-> ErrorDetails(resp.text)])
    ELSE JObj([error |-> JStr(<<"API request failed: ", ToString(resp.status_code)>>),
               details |-> JStr(resp.text)])

\* What the function does with the response of its request.
OnResponse(t, a, resp) ==
    IF IsSuccess(resp.status_code) THEN Returned(OnSuccess(t, a, resp))
    ELSE Returned(OnHTTPStatusError(t, a, resp))

\* str(request.url): the URL with the query string httpx appends for params.
RequestUrl(req) ==
    IF req.params.t = "obj" /\ DOMAIN req.params.m # {}
    THEN req.url \o <<"?">> \o KeySeq(DOMAIN req.params.m)
    ELSE req.url

RequestNotSet == Str("RuntimeError: The .request property has not been set.")

\* except httpx.RequestError: exc is [message, hasRequest]; e.request raises
\* RuntimeError when the exception carries no request.
OnRequestError(t, req, exc) ==
    IF t \in DecodingTools
    THEN IF exc.hasRequest
         THEN Returned(JObj([error |-> JStr(<<"Request to ">> \o RequestUrl(req)
                                            \o <<" failed: ">> \o exc.message)]))
         ELSE Raised(RequestNotSet)
    ELSE Returned(JObj([error |-> JStr(<<"Request failed: ">> \o exc.message)]))

\* except Exception
OnException(t, exc) == Returned(UnexpectedError(exc.message))

(***************************************************************************)
(* The two tools of main.py                                                *)
(***************************************************************************)
HealthCheck ==
    JObj([status |-> Str("healthy"),
          message |-> Str("AttioMCP server is running with all tools")])

\* type(v).__name__ of the values `in` rejects.
TypeName(v) == IF v.t = "null" THEN "NoneType" ELSE "int"

\* "error" in result: a TypeError (ok FALSE) when result is no container.
ContainsError(result) ==
    CASE result.t = "obj" -> [ok |-> TRUE, val |-> "error" \in DOMAIN result.m]
      [] result.t = "arr" ->
            [ok |-> TRUE, val |-> \E i \in 1..Len(result.a) : result.a[i] = Str("error")]
      [] result.t = "str" ->
            [ok |-> TRUE, val |-> \E i \in 1..Len(result.s) : result.s[i] = "error"]
      [] OTHER -> [ok |-> FALSE, val |-> FALSE]

\* test_attio_connection, given how list_workspace_members ended.
TestAttioConnection(outcome) ==
    IF outcome.kind = "raise"
    THEN Returned(JObj([status |-> Str("error"),
                        message |-> JStr(<<"Connection test failed: ">> \o outcome.value.s)]))
    ELSE LET c == ContainsError(outcome.value)
         IN IF ~c.ok
            THEN Returned(JObj([status |-> Str("error"),
                                message |-> JStr(<<"Connection test failed: ",
                                                   "argument of type '",
                                                   TypeName(outcome.value),
                                                   "' is not iterable">>)]))
            ELSE IF c.val
            THEN Returned(JObj([status |-> Str("error"),
                                message |-> Str("Failed to connect to Attio API"),
                                details |-> outcome.value]))
            ELSE Returned(JObj([status |-> Str("success"),
                                message |-> Str("Successfully connected to Attio API")]))

\* How an invocation of tool t ends, given how its tool function ended.
Finish(t, outcome) ==
    IF t = "test_attio_connection" THEN TestAttioConnection(outcome) ELSE outcome

(***************************************************************************)
(* The upstream: what the one request can meet                             *)
(***************************************************************************)
NoRequest == [none |-> "request"]
StatusCodes == {100, 200, 201, 204, 301, 404, 500}

EmptyText == <<>>
PlainText == <<"Internal Server Error">>
ErrorJson == JObj([message |-> Str("Not Found"), code |-> JNum(404)])
ListJson == JObj([data |-> JArr(<<JObj([id |-> Str("r1")])>>)])
\* The bodies an upstream answers with, besides echoing the body it received.
ResponseTexts == {EmptyText, PlainText, Dumps(ErrorJson), Dumps(ListJson), Dumps(JNum(5))}

\* The bodies the upstream can answer request req with: the fixed ones, and the
\* echo of the body it received.
UpstreamTexts(req) == ResponseTexts \cup (IF req = NoRequest THEN {} ELSE {req.content})

\* The httpx.RequestError a failed request raises: its message, and whether it
\* carries the request (httpx attaches it to the errors its transport raises;
\* an exception constructed without one has none).
RequestErrors ==
    {[message |-> <<"All connection attempts failed">>, hasRequest |-> h] : h \in BOOLEAN}
\* Any other exception of the try block.
OtherErrors == {[message |-> <<"Invalid URL">>]}

(***************************************************************************)
(* The registered tools attio_<name> of main.py                            *)
(***************************************************************************)
RegisteredTools == ApiTools

\* An argument the caller left out.
Omitted == [t |-> "omitted"]

\* The defaults in the signatures of the registered tools.
WrapperDefaults(t) ==
    [NoArgs EXCEPT !.limit = IF t \in QueryTools THEN JNum(10)
                             ELSE IF t \in PagedGetTools THEN JNum(50) ELSE JNull,
                   !.offset = IF t \in QueryTools \cup PagedGetTools THEN JNum(0) ELSE JNull]
\* The defaults in the signatures of the tool functions.
FunctionDefaults(t) ==
    [NoArgs EXCEPT !.limit = IF t = "list_records" THEN JNum(500)
                             ELSE IF t = "list_entries" THEN JNum(10)
                             ELSE IF t \in PagedGetTools THEN JNum(50) ELSE JNull,
                   !.offset = IF t \in QueryTools \cup PagedGetTools THEN JNum(0) ELSE JNull]

\* The parameters of the registered tool of t that have a default.
Defaulted(t) ==
    IF t \in QueryTools THEN {"filter_criteria", "sorts", "limit", "offset"}
    ELSE IF t \in PagedGetTools THEN {"limit", "offset"} ELSE {}

\* What a caller can give the registered tool of t: the arguments of the tool
\* function, any of the defaulted ones left out.
GivenOf(t) ==
    {[f \in DOMAIN a |-> IF f \in out THEN Omitted ELSE a[f]] :
        a \in ArgsOf(t), out \in SUBSET Defaulted(t)}

\* Mutant: an argument the caller left out is left out of the call as well, so
\* that the tool function's own default applies.
Forward_FunctionDefaults(t, g) ==
    [f \in DOMAIN g |-> IF f \in Defaulted(t) /\ g[f] = Omitted THEN FunctionDefaults(t)[f] ELSE g[f]]

\* return await <t>(...): the arguments the registered tool passes on, its own
\* default in the place of an argument the caller left out.
Forward(t, g) ==
    [f \in DOMAIN g |-> IF f \in Defaulted(t) /\ g[f] = Omitted THEN WrapperDefaults(t)[f] ELSE g[f]]

\* The upstream answers tried with the registered tools.
RegisteredStatusCodes == {200, 404}
RegisteredTexts == {Dumps(ListJson), PlainText}

(***************************************************************************)
(* State                                                                   *)
(***************************************************************************)
VARIABLES
    API_KEY,     \* config.API_KEY, read once at import
    pc,          \* per invocation slot: "idle", "awaiting", "returned", "raised"
    call,        \* the tool invoked and its arguments
    request,     \* the request issued, NoRequest before
    netCalls,    \* the number of HTTP requests the invocation has attempted
    clientOpen,  \* whether the invocation's httpx.AsyncClient is open
    response,    \* the upstream's response, NoResponse when there is none
    exception,   \* the exception the client call raised, NoException when none
    result,      \* the value returned (or the exception raised), NoResult before
    given,       \* the arguments the caller gave the registered attio_* tool
    environ,     \* os.environ: TRANSPORT and PORT, JNull when unset
    startPc,     \* the position of __main__: "init", "configured", "running", "exited", "failed", "crashed"
    transport,   \* __main__'s local transport
    port,        \* __main__'s local port
    runs,        \* the calls of mcp.run made, in order
    log          \* the lines logged by __main__, in order

toolVars ==
    <<API_KEY, pc, call, request, netCalls, clientOpen, response, exception, result, given>>
startupVars == <<environ, startPc, transport, port, runs, log>>
vars == <<toolVars, startupVars>>

Slots == {1}
NoCall == [tool |-> "", args |-> NoArgs]
NoException == [none |-> "exception"]
\* given, when the tool function was not called through a registered tool.
NotRegistered == [none |-> "given"]

ArgsFor(t) == IF t \in MainTools THEN {NoArgs} ELSE ArgsOf(t)

\* The tool invocations before any tool is invoked.
Idle ==
    /\ API_KEY \in ApiKeys
    /\ pc = [p \in Slots |-> "idle"]
    /\ call = [p \in Slots |-> NoCall]
    /\ request = [p \in Slots |-> NoRequest]
    /\ netCalls = [p \in Slots |-> 0]
    /\ clientOpen = [p \in Slots |-> FALSE]
    /\ response = [p \in Slots |-> NoResponse]
    /\ exception = [p \in Slots |-> NoException]
    /\ result = [p \in Slots |-> NoResult]
    /\ given = [p \in Slots |-> NotRegistered]

(***************************************************************************)
(* Server startup (main.py, __main__)                                      *)
(***************************************************************************)
DefaultPort == 8080
DefaultTransport == "sse"
Host == "0.0.0.0"
MaxPort == 8080

\* The values of the environment variables tried; JNull is an unset variable.
TransportValues ==
    {JNull, Str("sse"), Str("stdio"), Str("streamable-http"), Str("http"), Str("SSE"),
     JStr(<<>>)}
PortValues == {JNull, Str("8080"), Str("3000"), Str("0"), Str("abc"), JStr(<<>>)}
Environs == [TRANSPORT : TransportValues, PORT : PortValues]

\* os.environ.get(name, default)
EnvironGet(env, name, default) == IF env[name] = JNull THEN default ELSE env[name]

\* int(x): x an int already, or a str of decimal digits; ValueError (ok FALSE) otherwise.
IsDecimal(v) == Len(v.s) = 1 /\ \E n \in 0..MaxPort : ToString(n) = v.s[1]
IntOf(v) ==
    IF v.t = "num" THEN [ok |-> TRUE, val |-> v.n]
    ELSE IF IsDecimal(v)
    THEN [ok |-> TRUE, val |-> CHOOSE n \in 0..MaxPort : ToString(n) = v.s[1]]
    ELSE [ok |-> FALSE, val |-> 0]

\* mcp.run(transport=..., host=..., port=...); stdio is run without host and port.
NetworkRun(name, p) == [transport |-> name, host |-> Host, port |-> p]
StdioRun == [transport |-> "stdio"]

StartingLines(tr, p) ==
    << <<"INFO", "Starting Complete Attio MCP Server on port ", ToString(p),
         " with transport ", tr>>,
       <<"INFO", "All Attio API tools registered and ready">> >>
UnknownTransportLine(tr) == <<"WARNING", "Unknown transport ", tr, ", defaulting to SSE">>
FailedToStartLine(message) == <<"ERROR", "Failed to start server: ", message>>
RunErrors == {"[Errno 98] address already in use"}

\* The server as the tool invocations meet it: started with nothing set in the
\* environment, the SSE transport running on the default port.
Serving ==
    /\ environ = [TRANSPORT |-> JNull, PORT |-> JNull]
    /\ startPc = "running"
    /\ transport = DefaultTransport
    /\ port = DefaultPort
    /\ runs = <<NetworkRun("sse", DefaultPort)>>
    /\ log = StartingLines(DefaultTransport, DefaultPort)

Init == Idle /\ Serving

\* Mutant: the client is not closed when the invocation ends.
End_ClientLeftOpen(p, o) ==
    /\ pc' = [pc EXCEPT ![p] = IF o.kind = "raise" THEN "raised" ELSE "returned"]
    /\ result' = [result EXCEPT ![p] = o.value]
    /\ UNCHANGED clientOpen
\* The invocation of slot p ends with outcome o (a return or a raise).
End(p, o) ==
    /\ pc' = [pc EXCEPT ![p] = IF o.kind = "raise" THEN "raised" ELSE "returned"]
    /\ result' = [result EXCEPT ![p] = o.value]
    /\ clientOpen' = [clientOpen EXCEPT ![p] = FALSE]

\* Mutant: the request kept in one module-level object that every invocation
\* in flight sends from, so a new invocation overwrites the others' request.
Invoke_SharedRequest(p, t, a) ==
    /\ pc[p] = "idle"
    /\ call' = [call EXCEPT ![p] = [tool |-> t, args |-> a]]
    /\ UNCHANGED <<API_KEY, response, exception, startupVars>>
    /\ IF t = "health_check"
       THEN /\ End(p, Returned(HealthCheck))
            /\ UNCHANGED <<request, netCalls>>
       ELSE LET rejection == Rejection(Callee(t), a, API_KEY)
            IN IF rejection # NoResult
               THEN /\ End(p, Finish(t, Returned(rejection)))
                    /\ UNCHANGED <<request, netCalls>>
               ELSE /\ request' = [q \in DOMAIN request |->
                                     IF q = p \/ pc[q] = "awaiting"
                                     THEN BuildRequest(Callee(t), a, API_KEY)
                                     ELSE request[q]]
                    /\ netCalls' = [netCalls EXCEPT ![p] = @ + 1]
                    /\ clientOpen' = [clientOpen EXCEPT ![p] = TRUE]
                    /\ pc' = [pc EXCEPT ![p] = "awaiting"]
                    /\ UNCHANGED result
\* Mutant: a request made while another invocation has made one carries an
\* offset remembered from that one.
Invoke_Remembering(p, t, a) ==
    /\ pc[p] = "idle"
    /\ call' = [call EXCEPT ![p] = [tool |-> t, args |-> a]]
    /\ UNCHANGED <<API_KEY, response, exception, startupVars>>
    /\ IF t = "health_check"
       THEN /\ End(p, Returned(HealthCheck))
            /\ UNCHANGED <<request, netCalls>>
       ELSE LET rejection == Rejection(Callee(t), a, API_KEY)
            IN IF rejection # NoResult
               THEN /\ End(p, Finish(t, Returned(rejection)))
                    /\ UNCHANGED <<request, netCalls>>
               ELSE /\ request' = [request EXCEPT ![p] =
                                     IF \E q \in DOMAIN netCalls : netCalls[q] > 0
                                     THEN [BuildRequest(Callee(t), a, API_KEY)
                                              EXCEPT !.params = JObj([offset |-> JNum(1)])]
                                     ELSE BuildRequest(Callee(t), a, API_KEY)]
                    /\ netCalls' = [netCalls EXCEPT ![p] = @ + 1]
                    /\ clientOpen' = [clientOpen EXCEPT ![p] = TRUE]
                    /\ pc' = [pc EXCEPT ![p] = "awaiting"]
                    /\ UNCHANGED result

\* Mutant: health_check makes the credential check of the other tools.
Invoke_HealthCheckNeedsKey(p, t, a) ==
    /\ pc[p] = "idle"
    /\ call' = [call EXCEPT ![p] = [tool |-> t, args |-> a]]
    /\ UNCHANGED <<API_KEY, response, exception, startupVars>>
    /\ IF t = "health_check"
       THEN /\ End(p, Returned(IF Truthy(API_KEY) THEN HealthCheck ELSE CredentialError))
            /\ UNCHANGED <<request, netCalls>>
       ELSE LET rejection == Rejection(Callee(t), a, API_KEY)
            IN IF rejection # NoResult
               THEN /\ End(p, Finish(t, Returned(rejection)))
                    /\ UNCHANGED <<request, netCalls>>
               ELSE /\ request' = [request EXCEPT ![p] = BuildRequest(Callee(t), a, API_KEY)]
                    /\ netCalls' = [netCalls EXCEPT ![p] = @ + 1]
                    /\ clientOpen' = [clientOpen EXCEPT ![p] = TRUE]
                    /\ pc' = [pc EXCEPT ![p] = "awaiting"]
                    /\ UNCHANGED result
\* A tool is invoked and runs up to its await: health_check returns at once;
\* the others return on a failed check, or open a client and send the request.
Invoke(p, t, a) ==
    /\ pc[p] = "idle"
    /\ call' = [call EXCEPT ![p] = [tool |-> t, args |-> a]]
    /\ UNCHANGED <<API_KEY, response, exception, startupVars>>
    /\ IF t = "health_check"
       THEN /\ End(p, Returned(HealthCheck))
            /\ UNCHANGED <<request, netCalls>>
       ELSE LET rejection == Rejection(Callee(t), a, API_KEY)
            IN IF rejection # NoResult
               THEN /\ End(p, Finish(t, Returned(rejection)))
                    /\ UNCHANGED <<request, netCalls>>
               ELSE /\ request' = [request EXCEPT ![p] = BuildRequest(Callee(t), a, API_KEY)]
                    /\ netCalls' = [netCalls EXCEPT ![p] = @ + 1]
                    /\ clientOpen' = [clientOpen EXCEPT ![p] = TRUE]
                    /\ pc' = [pc EXCEPT ![p] = "awaiting"]
                    /\ UNCHANGED result

\* The tool function (or one of the two tools of main.py) is called as it is.
InvokeFunction(p, t, a) == Invoke(p, t, a) /\ UNCHANGED given

\* The registered tool attio_<t> is called with the arguments g: it calls tool
\* function t with the arguments it forwards.
InvokeRegistered(p, t, g) ==
    /\ given' = [given EXCEPT ![p] = g]
    /\ Invoke(p, t, Forward(t, g))

\* The invocation of slot p receives resp and ends.
Receive(p, resp) ==
    /\ response' = [response EXCEPT ![p] = resp]
    /\ End(p, Finish(call[p].tool, OnResponse(Callee(call[p].tool), call[p].args, resp)))
    /\ UNCHANGED <<API_KEY, call, request, netCalls, exception, given, startupVars>>

\* Mutant: a 5xx response is retried once before it is reported.
Respond_Retry(p, status_code, text) ==
    /\ pc[p] = "awaiting"
    /\ IF status_code >= 500 /\ netCalls[p] < 2
       THEN /\ netCalls' = [netCalls EXCEPT ![p] = @ + 1]
            /\ UNCHANGED <<API_KEY, pc, call, request, clientOpen, response, exception,
                           result, given, startupVars>>
       ELSE Receive(p, [status_code |-> status_code, text |-> text])

\* The upstream answers the request of slot p.
Respond(p, status_code, text) ==
    /\ pc[p] = "awaiting"
    /\ Receive(p, [status_code |-> status_code, text |-> text])

\* The request of slot p fails in transport: the client raises httpx.RequestError.
RequestFails(p, exc) ==
    /\ pc[p] = "awaiting"
    /\ exception' = [exception EXCEPT ![p] = [type |-> "RequestError"] @@ exc]
    /\ End(p, Finish(call[p].tool, OnRequestError(Callee(call[p].tool), request[p], exc)))
    /\ UNCHANGED <<API_KEY, call, request, netCalls, response, given, startupVars>>

\* The client call raises any other exception.
OtherFails(p, exc) ==
    /\ pc[p] = "awaiting"
    /\ exception' = [exception EXCEPT ![p] = [type |-> "Exception"] @@ exc]
    /\ End(p, Finish(call[p].tool, OnException(Callee(call[p].tool), exc)))
    /\ UNCHANGED <<API_KEY, call, request, netCalls, response, given, startupVars>>

\* The caller has taken the result: the slot is free for the next invocation.
Reset(p) ==
    /\ pc[p] \in {"returned", "raised"}
    /\ pc' = [pc EXCEPT ![p] = "idle"]
    /\ call' = [call EXCEPT ![p] = NoCall]
    /\ request' = [request EXCEPT ![p] = NoRequest]
    /\ netCalls' = [netCalls EXCEPT ![p] = 0]
    /\ response' = [response EXCEPT ![p] = NoResponse]
    /\ exception' = [exception EXCEPT ![p] = NoException]
    /\ result' = [result EXCEPT ![p] = NoResult]
    /\ given' = [given EXCEPT ![p] = NotRegistered]
    /\ UNCHANGED <<API_KEY, clientOpen, startupVars>>

Next ==
    \E p \in Slots :
        \/ \E t \in Tools : \E a \in ArgsFor(t) : InvokeFunction(p, t, a)
        \/ \E s \in StatusCodes :
             \E text \in UpstreamTexts(request[p]) : Respond(p, s, text)
        \/ \E exc \in RequestErrors : RequestFails(p, exc)
        \/ \E exc \in OtherErrors : OtherFails(p, exc)
        \/ Reset(p)

Spec == Init /\ [][Next]_vars

\* port = int(os.environ.get("PORT", 8080)); transport = os.environ.get("TRANSPORT", "sse");
\* the two logger.info lines.  A PORT that int() rejects ends the process there.
ReadEnvironment ==
    /\ startPc = "init"
    /\ LET p == IntOf(EnvironGet(environ, "PORT", JNum(DefaultPort)))
           tr == EnvironGet(environ, "TRANSPORT", Str(DefaultTransport))
       IN IF ~p.ok
          THEN /\ startPc' = "crashed"
               /\ UNCHANGED <<transport, port, log>>
          ELSE /\ startPc' = "configured"
               /\ port' = p.val
               /\ transport' = IF tr.s = <<>> THEN "" ELSE tr.s[1]
               /\ log' = log \o StartingLines(transport', port')
    /\ UNCHANGED <<environ, runs, toolVars>>

\* Mutant: an unknown transport is warned about and no transport is run.
SelectTransport_NoFallback ==
    /\ startPc = "configured"
    /\ startPc' = "running"
    /\ CASE transport = "sse" ->
               runs' = Append(runs, NetworkRun("sse", port)) /\ UNCHANGED log
         [] transport = "stdio" ->
               runs' = Append(runs, StdioRun) /\ UNCHANGED log
         [] transport = "streamable-http" ->
               runs' = Append(runs, NetworkRun("streamable-http", port)) /\ UNCHANGED log
         [] OTHER ->
               /\ log' = Append(log, UnknownTransportLine(transport))
               /\ UNCHANGED runs
    /\ UNCHANGED <<environ, transport, port, toolVars>>

\* The if / elif / else on transport: the one mcp.run call.
SelectTransport ==
    /\ startPc = "configured"
    /\ startPc' = "running"
    /\ CASE transport = "sse" ->
               runs' = Append(runs, NetworkRun("sse", port)) /\ UNCHANGED log
         [] transport = "stdio" ->
               runs' = Append(runs, StdioRun) /\ UNCHANGED log
         [] transport = "streamable-http" ->
               runs' = Append(runs, NetworkRun("streamable-http", port)) /\ UNCHANGED log
         [] OTHER ->
               /\ log' = Append(log, UnknownTransportLine(transport))
               /\ runs' = Append(runs, NetworkRun("sse", port))
    /\ UNCHANGED <<environ, transport, port, toolVars>>

\* mcp.run returns: the server was shut down.
ServerStops ==
    /\ startPc = "running"
    /\ startPc' = "exited"
    /\ UNCHANGED <<environ, transport, port, runs, log, toolVars>>

\* mcp.run raises: except Exception logs the error and raises it again.
RunFails(message) ==
    /\ startPc = "running"
    /\ startPc' = "failed"
    /\ log' = Append(log, FailedToStartLine(message))
    /\ UNCHANGED <<environ, transport, port, runs, toolVars>>

StartupInit ==
    /\ Idle
    /\ environ \in Environs
    /\ startPc = "init"
    /\ transport = ""
    /\ port = 0
    /\ runs = <<>>
    /\ log = <<>>

StartupNext ==
    \/ ReadEnvironment
    \/ SelectTransport
    \/ ServerStops
    \/ \E message \in RunErrors : RunFails(message)

StartupSpec == StartupInit /\ [][StartupNext]_vars

\* The server's callers invoke the registered tools.
RegisteredNext ==
    \E p \in Slots :
        \/ \E t \in RegisteredTools : \E g \in GivenOf(t) : InvokeRegistered(p, t, g)
        \/ \E s \in RegisteredStatusCodes : \E text \in RegisteredTexts : Respond(p, s, text)
        \/ \E exc \in RequestErrors : RequestFails(p, exc)
        \/ \E exc \in OtherErrors : OtherFails(p, exc)
        \/ Reset(p)

RegisteredSpec == Init /\ [][RegisteredNext]_vars

(***************************************************************************)
(* Concurrent invocations: two invocations in flight on the event loop,    *)
(* each running from its call to its one await without interruption.      *)
(***************************************************************************)
Procs == {1, 2}

\* The calls the two invocations choose from: one of each kind of tool.
ConcurrentCalls ==
    {[tool |-> "health_check", args |-> NoArgs],
     [tool |-> "test_attio_connection", args |-> NoArgs],
     [tool |-> "list_entries",
      args |-> [NoArgs EXCEPT !.id1 = "abc", !.limit = JNum(10), !.offset = JNum(0)]],
     [tool |-> "create_record",
      args |-> [NoArgs EXCEPT !.id1 = "people", !.data = JObj([name |-> Str("Ada")])]],
     [tool |-> "delete_record", args |-> [NoArgs EXCEPT !.id1 = "people", !.id2 = "e1"]],
     [tool |-> "list_attributes",
      args |-> [NoArgs EXCEPT !.target_type = "objects", !.id1 = "people"]],
     [tool |-> "list_attributes",
      args |-> [NoArgs EXCEPT !.target_type = "object", !.id1 = "people"]],
     [tool |-> "update_select_option",
      args |-> [NoArgs EXCEPT !.target_type = "lists", !.id1 = "abc", !.id2 = "e1",
                              !.id3 = "o1", !.data = JObj([name |-> Str("Ada")])]],
     [tool |-> "list_record_entries",
      args |-> [NoArgs EXCEPT !.id1 = "people", !.id2 = "e1", !.limit = JNum(10)]],
     [tool |-> "get_note", args |-> [NoArgs EXCEPT !.id1 = "abc"]]}
ConcurrentStatusCodes == {200, 204, 404}
ConcurrentTexts == {EmptyText, Dumps(ErrorJson)}

ConcurrentInit ==
    /\ API_KEY \in ApiKeys
    /\ pc = [p \in Procs |-> "idle"]
    /\ call = [p \in Procs |-> NoCall]
    /\ request = [p \in Procs |-> NoRequest]
    /\ netCalls = [p \in Procs |-> 0]
    /\ clientOpen = [p \in Procs |-> FALSE]
    /\ response = [p \in Procs |-> NoResponse]
    /\ exception = [p \in Procs |-> NoException]
    /\ result = [p \in Procs |-> NoResult]
    /\ given = [p \in Procs |-> NotRegistered]
    /\ Serving

ConcurrentNext ==
    \E p \in Procs :
        \/ \E c \in ConcurrentCalls : InvokeFunction(p, c.tool, c.args)
        \/ \E s \in ConcurrentStatusCodes : \E text \in ConcurrentTexts : Respond(p, s, text)
        \/ \E exc \in RequestErrors : RequestFails(p, exc)
        \/ \E exc \in OtherErrors : OtherFails(p, exc)
        \/ Reset(p)

ConcurrentSpec == ConcurrentInit /\ [][ConcurrentNext]_vars
(***************************************************************************)
(* Properties                                                              *)
(***************************************************************************)
Done(p) == pc[p] = "returned"
Tool(p) == call[p].tool
Args(p) == call[p].args
IsErrorResult(r) == Has(r, "error")
\* The pieces of sub occur in s, in a row.
Contains(s, sub) ==
    \E i \in 0..(Len(s) - Len(sub)) : \A j \in 1..Len(sub) : s[i + j] = sub[j]
\* An UpstreamStatusError of status code: the error text of either handler family.
IsUpstreamStatusError(r, code) ==
    /\ Has(r, "error") /\ Has(r, "details")
    /\ r.m.error \in {JStr(<<"API request failed with status ", ToString(code)>>),
                      JStr(<<"API request failed: ", ToString(code)>>)}
\* The invocation of slot p met both checks and passed them.
PassedChecks(p) ==
    /\ Tool(p) \in Tools \ {"health_check"}
    /\ Truthy(API_KEY)
    /\ Callee(Tool(p)) \in AttributesTools => Args(p).target_type \in {"objects", "lists"}

\* C1 as stated: with API_KEY absent or empty every tool, whatever it is,
\* returns the ConfigurationError result and makes no network call.
C1_EveryToolConfigurationError ==
    \A p \in Slots :
        ~Truthy(API_KEY) =>
            /\ netCalls[p] = 0
            /\ Done(p) => result[p] = CredentialError

\* C1, as the code has it: with API_KEY absent or empty, every tool function of the tools
\* modules returns the ConfigurationError result, whatever its arguments;
\* test_attio_connection returns status 'error' with that result as 'details',
\* health_check returns its 'healthy' result; none of them makes a network call,
\* opens a client or raises.
C1_CredentialAbsent ==
    \A p \in Slots :
        ~Truthy(API_KEY) =>
            /\ netCalls[p] = 0 /\ request[p] = NoRequest /\ ~clientOpen[p]
            /\ pc[p] \in {"idle", "returned"}
            /\ Done(p) /\ Tool(p) \in ApiTools => result[p] = CredentialError
            /\ Done(p) /\ Tool(p) = "test_attio_connection" =>
                    /\ result[p].m.status = Str("error")
                    /\ result[p].m.details = CredentialError
            /\ Done(p) /\ Tool(p) = "health_check" => result[p] = HealthCheck

C1_Witness ==
    \E p \in Slots :
        /\ Done(p) /\ Tool(p) = "create_record" /\ API_KEY = JStr(<<>>)
        /\ result[p] = CredentialError /\ netCalls[p] = 0

\* C2 as stated: a target_type tool called with a target_type other than
\* 'objects' and 'lists' returns the ValidationError result, with no network call.
C2_InvalidTargetTypeValidationError ==
    \A p \in Slots :
        Done(p) /\ Tool(p) \in AttributesTools
                /\ Args(p).target_type \notin {"objects", "lists"} =>
            /\ result[p] = TargetTypeError
            /\ netCalls[p] = 0

\* C2, as the code has it: a target_type tool called with a target_type other than
\* 'objects' and 'lists' makes no network call and returns at once: the
\* ValidationError result when a credential is configured, the
\* ConfigurationError result when it is not.
C2_InvalidTargetType ==
    \A p \in Slots :
        pc[p] # "idle" /\ Tool(p) \in AttributesTools
                /\ Args(p).target_type \notin {"objects", "lists"} =>
            /\ Done(p) /\ netCalls[p] = 0 /\ request[p] = NoRequest
            /\ result[p] = IF Truthy(API_KEY) THEN TargetTypeError ELSE CredentialError

C2_Witness ==
    \E p \in Slots :
        /\ Done(p) /\ Tool(p) = "update_status" /\ Args(p).target_type = "object"
        /\ Truthy(API_KEY) /\ result[p] = TargetTypeError /\ netCalls[p] = 0

C4_ExactlyOneRequest ==
    \A p \in Slots :
        /\ netCalls[p] <= 1
        /\ pc[p] # "idle" /\ PassedChecks(p) => netCalls[p] = 1 /\ request[p] # NoRequest
        /\ pc[p] # "idle" /\ ~PassedChecks(p) => netCalls[p] = 0

C4_Witness ==
    \E p \in Slots :
        /\ Done(p) /\ Tool(p) = "test_attio_connection" /\ netCalls[p] = 1
        /\ response[p] # NoResponse /\ response[p].status_code = 500

\* C5: a DELETE tool answered 204 with an empty body returns a success result,
\* one without an 'error' key.
C5_DeleteNoContentSucceeds ==
    \A p \in Slots :
        Done(p) /\ Tool(p) \in DeleteTools
                /\ response[p] = [status_code |-> 204, text |-> EmptyText] =>
            ~IsErrorResult(result[p])

\* C6: a tool answered 404 with a JSON error body returns an UpstreamStatusError
\* whose 'details' is the decoded JSON value of the body.
C6_DetailsDecoded ==
    \A p \in Slots :
        Done(p) /\ Tool(p) \in ApiTools /\ response[p] # NoResponse
                /\ response[p].status_code = 404 /\ Loads(response[p].text).ok =>
            /\ IsUpstreamStatusError(result[p], 404)
            /\ result[p].m.details = Loads(response[p].text).val

\* C7: a tool function answered 500 with a body that is not JSON returns an
\* UpstreamStatusError whose 'details' is the raw text of the body.
C7_DetailsRawText ==
    \A p \in Slots :
        Done(p) /\ Tool(p) \in ApiTools /\ response[p] # NoResponse
                /\ response[p].status_code = 500 /\ ~Loads(response[p].text).ok =>
            /\ IsUpstreamStatusError(result[p], 500)
            /\ result[p].m.details = JStr(response[p].text)

C7_Witness ==
    \E p \in Slots :
        /\ Done(p) /\ Tool(p) = "get_record"
        /\ response[p] = [status_code |-> 500, text |-> PlainText]
        /\ result[p].m.details = JStr(PlainText)

\* C8: against an upstream that answers 200 with the body it received, a
\* create or update tool called with payload P sends P wrapped once under
\* 'data' and returns exactly {"data": P}.
C8_RoundTrip ==
    \A p \in Slots :
        Done(p) /\ Tool(p) \in CreateTools \cup UpdateTools /\ response[p] # NoResponse
                /\ response[p] = [status_code |-> 200, text |-> request[p].content] =>
            /\ result[p] = JObj([data |-> Args(p).data])
            /\ request[p].json = JObj([data |-> Args(p).data])

C8_Witness ==
    \E p \in Slots :
        /\ Done(p) /\ Tool(p) = "update_list_entry_overwrite" /\ response[p] # NoResponse
        /\ response[p] = [status_code |-> 200, text |-> request[p].content]
        /\ Has(Args(p).data, "values")
        /\ result[p] = JObj([data |-> Args(p).data])

\* C9: list_entries sends one POST to <base>/v2/lists/<list_id>/entries/query
\* whose JSON body has 'limit' and 'offset' with the caller's values, 'filter'
\* and 'sorts' only when supplied (then the caller's), and no other key; for
\* list_id 'abc', limit 10, offset 0, no filter, no sorts the body is
\* {"limit":10,"offset":0}.
C9_ListEntriesRequest ==
    \A p \in Slots :
        Tool(p) = "list_entries" /\ request[p] # NoRequest =>
            LET req == request[p]
                a == Args(p)
                body == Loads(req.content)
            IN /\ req.method = "POST"
               /\ req.url = <<"https://api.attio.com", "/v2/lists/", a.id1, "/entries/query">>
               /\ req.params = JNull
               /\ body.ok /\ body.val.t = "obj"
               /\ {"limit", "offset"} \subseteq DOMAIN body.val.m
               /\ DOMAIN body.val.m \subseteq {"limit", "offset", "filter", "sorts"}
               /\ body.val.m.limit = a.limit /\ body.val.m.offset = a.offset
               /\ "filter" \in DOMAIN body.val.m =>
                      a.filter_criteria # JNull /\ body.val.m.filter = a.filter_criteria
               /\ "sorts" \in DOMAIN body.val.m =>
                      a.sorts # JNull /\ body.val.m.sorts = a.sorts
               /\ a.id1 = "abc" /\ a.limit = JNum(10) /\ a.offset = JNum(0)
                        /\ a.filter_criteria = JNull /\ a.sorts = JNull =>
                      /\ body.val = JObj([limit |-> JNum(10), offset |-> JNum(0)])
                      /\ req.url = <<"https://api.attio.com", "/v2/lists/", "abc",
                                     "/entries/query">>

C9_Witness ==
    \E p \in Slots :
        /\ Tool(p) = "list_entries" /\ pc[p] = "awaiting"
        /\ Args(p).id1 = "abc" /\ Args(p).limit = JNum(10) /\ Args(p).offset = JNum(0)
        /\ Args(p).filter_criteria = JNull /\ Args(p).sorts = JNull
        /\ request[p].json = JObj([limit |-> JNum(10), offset |-> JNum(0)])

\* C10: a tool function answered with a 2xx status other than 204 and a JSON
\* body returns the decoded body itself, nothing added, removed or wrapped.
C10_SuccessVerbatim ==
    \A p \in Slots :
        Done(p) /\ Tool(p) \in ApiTools /\ response[p] # NoResponse
                /\ response[p].status_code \in 200..299 /\ response[p].status_code # 204
                /\ Loads(response[p].text).ok =>
            result[p] = Loads(response[p].text).val

C10_Witness ==
    \E p \in Slots :
        /\ Done(p) /\ Tool(p) = "delete_task"
        /\ response[p] = [status_code |-> 200, text |-> Dumps(ListJson)]
        /\ result[p] = ListJson

\* C11: a non-2xx response gives, in every tool module alike, a result whose
\* 'error' is "API request failed with status <code>" and that has 'details'.
C11_UniformStatusError ==
    \A p \in Slots :
        Done(p) /\ Tool(p) \in ApiTools /\ response[p] # NoResponse
                /\ ~IsSuccess(response[p].status_code) =>
            /\ Has(result[p], "error") /\ Has(result[p], "details")
            /\ result[p].m.error =
                   JStr(<<"API request failed with status ", ToString(response[p].status_code)>>)

\* C12: a transport failure gives a result whose 'error' text names the URL of
\* the failed request and the failure's message.
C12_TransportErrorNamesUrl ==
    \A p \in Slots :
        pc[p] \in {"returned", "raised"} /\ Tool(p) \in ApiTools
                /\ exception[p] # NoException /\ exception[p].type = "RequestError" =>
            /\ Done(p) /\ Has(result[p], "error")
            /\ Contains(result[p].m.error.s, request[p].url)
            /\ Contains(result[p].m.error.s, exception[p].message)

\* C13: every request issued carries Authorization: Bearer <API_KEY>; it carries
\* Content-Type: application/json exactly when it sends a JSON body, which the
\* POST, PUT and PATCH requests do and the GET and DELETE requests do not.
C13_RequestHeaders ==
    \A p \in Slots :
        request[p] # NoRequest =>
            /\ request[p].headers["Authorization"] = <<"Bearer ">> \o API_KEY.s
            /\ ("Content-Type" \in DOMAIN request[p].headers) <=> request[p].hasJson
            /\ request[p].hasJson <=> request[p].method \in {"POST", "PUT", "PATCH"}
            /\ request[p].hasJson => request[p].headers["Content-Type"] = <<"application/json">>
            /\ DOMAIN request[p].headers \subseteq {"Authorization", "Content-Type"}

C13_Witness ==
    \E p \in Slots :
        /\ pc[p] = "awaiting" /\ Tool(p) = "update_record_overwrite"
        /\ request[p].method = "PUT"
        /\ request[p].headers = [Authorization |-> <<"Bearer ", "sk_live_1">>]
                                   @@ ("Content-Type" :> <<"application/json">>)

IsTransportError(r) ==
    /\ Has(r, "error") /\ ~Has(r, "details")
    /\ Head(r.m.error.s) \in {"Request to ", "Request failed: "}
IsUnexpectedError(r) ==
    /\ Has(r, "error") /\ ~Has(r, "details")
    /\ Head(r.m.error.s) = "An unexpected error occurred: "

ExpectedRun(tr, n) ==
    CASE tr = Str("sse") -> NetworkRun("sse", n)
      [] tr = Str("stdio") -> StdioRun
      [] tr = Str("streamable-http") -> NetworkRun("streamable-http", n)
      [] OTHER -> NetworkRun("sse", n)
Recognized(tr) == tr \in {Str("sse"), Str("stdio"), Str("streamable-http")}
Warned == \E i \in 1..Len(log) : log[i][1] = "WARNING"
Started == startPc \in {"running", "exited", "failed"}

SlotState(q) ==
    <<pc[q], call[q], request[q], netCalls[q], clientOpen[q], response[q], exception[q],
      result[q], given[q]>>

\* How the invocation of slot p ends when it runs alone with its own call, its
\* own response and its own exception.
Alone(p) ==
    LET t == Tool(p)
        req == BuildRequest(Callee(t), Args(p), API_KEY)
    IN IF t = "health_check" THEN Returned(HealthCheck)
       ELSE IF Rejection(Callee(t), Args(p), API_KEY) # NoResult
       THEN Finish(t, Returned(Rejection(Callee(t), Args(p), API_KEY)))
       ELSE IF response[p] # NoResponse
       THEN Finish(t, OnResponse(Callee(t), Args(p), response[p]))
       ELSE IF exception[p].type = "RequestError"
       THEN Finish(t, OnRequestError(Callee(t), req, exception[p]))
       ELSE Finish(t, OnException(Callee(t), exception[p]))

\* C16: in every interleaving of two invocations, each one's request and result
\* are those of its own call, response and exception alone; a step of one
\* invocation leaves the other's state and the configuration (API_KEY) as they were.
C16_NoSharedState ==
    /\ [](\A p \in Procs :
            /\ request[p] # NoRequest =>
                   request[p] = BuildRequest(Callee(Tool(p)), Args(p), API_KEY)
            /\ pc[p] \in {"returned", "raised"} =>
                   /\ result[p] = Alone(p).value
                   /\ (pc[p] = "raised") <=> (Alone(p).kind = "raise"))
    /\ [][/\ API_KEY' = API_KEY
          /\ \E p \in Procs : \A q \in Procs \ {p} : SlotState(q)' = SlotState(q)]_vars

C16_Witness ==
    /\ pc[1] = "awaiting" /\ Tool(1) = "list_entries"
    /\ pc[2] = "returned" /\ Tool(2) = "delete_record"
    /\ netCalls[2] = 1 /\ response[2] = [status_code |-> 204, text |-> EmptyText]
    /\ result[2] = DeletedResult("delete_record", Args(2))
    /\ request[1].url = <<BASE_URL, "/v2/lists/", "abc", "/entries/query">>

\* C17: an invocation has a client open exactly while its one request is in
\* flight: the client is opened for the request, by that invocation only, and is
\* closed when the invocation returns or raises, whatever the path; an invocation
\* rejected by a check opens none; when every invocation has ended none is open.
C17_ClientReleased ==
    /\ [](\A p \in Procs :
            /\ clientOpen[p] <=> pc[p] = "awaiting"
            /\ pc[p] \in {"returned", "raised"} /\ netCalls[p] = 0 => request[p] = NoRequest)
    /\ []((\A p \in Procs : pc[p] # "awaiting") => (\A p \in Procs : ~clientOpen[p]))
    /\ [][\A p \in Procs :
            /\ clientOpen'[p] /\ ~clientOpen[p] =>
                   /\ pc[p] = "idle" /\ pc'[p] = "awaiting"
                   /\ Rejection(Callee(call'[p].tool), call'[p].args, API_KEY) = NoResult
            /\ clientOpen[p] /\ ~clientOpen'[p] => pc'[p] \in {"returned", "raised"}]_vars

C17_Witness ==
    /\ pc[1] = "raised" /\ Tool(1) = "delete_record" /\ ~clientOpen[1]
    /\ exception[1] # NoException /\ exception[1].type = "RequestError"
    /\ pc[2] = "awaiting" /\ clientOpen[2] /\ Tool(2) = "list_attributes"

\* C18: any tool function answered 204 with an empty body returns a success
\* result: one without an 'error' key, the empty body never being decoded.
C18_NoContentIsSuccess ==
    \A p \in Slots :
        Done(p) /\ Tool(p) \in ApiTools
                /\ response[p] = [status_code |-> 204, text |-> EmptyText] =>
            /\ ~Has(result[p], "error")
            /\ result[p] # UnexpectedError(JSONDecodeErrorMessage)

\* The plain GET tool of the same module as query tool t.
PlainGetOf(t) == IF t = "list_entries" THEN "get_list_entry" ELSE "get_record"
\* The dict that holds the criteria in the body of query tool t.
CriteriaOf(t, body) == IF t = "list_entries" THEN body ELSE body.m.data

\* C19: list_entries and list_records send limit, offset, filter and sorts inside
\* the JSON body of one POST to .../query and pass no query-string parameter;
\* credential check, headers (with Content-Type) and the mapping of response or
\* failure to result are those of the plain GET tool of their module.
C19_QueryTools ==
    \A p \in Slots :
        Tool(p) \in QueryTools =>
            /\ ~Truthy(API_KEY) => Done(p) /\ result[p] = CredentialError
            /\ netCalls[p] <= 1
            /\ request[p] # NoRequest =>
                 LET req == request[p]
                     c == CriteriaOf(Tool(p), req.json)
                 IN /\ req.method = "POST"
                    /\ req.url \in {<<BASE_URL, "/v2/lists/", Args(p).id1, "/entries/query">>,
                                    <<BASE_URL, "/v2/objects/", Args(p).id1, "/records/query">>}
                    /\ req.params = JNull /\ RequestUrl(req) = req.url
                    /\ req.hasJson /\ Loads(req.content) = [ok |-> TRUE, val |-> req.json]
                    /\ c.m.limit = Args(p).limit /\ c.m.offset = Args(p).offset
                    /\ Has(c, "filter") => c.m.filter = Args(p).filter_criteria
                    /\ Has(c, "sorts") => c.m.sorts = Args(p).sorts
                    /\ Has(c, "filter") <=> Truthy(Args(p).filter_criteria)
                    /\ Has(c, "sorts") <=> Truthy(Args(p).sorts)
                    /\ req.headers = Headers(PlainGetOf(Tool(p)), API_KEY)
                                        @@ ("Content-Type" :> <<"application/json">>)
            /\ Done(p) /\ response[p] # NoResponse =>
                 Returned(result[p]) = OnResponse(PlainGetOf(Tool(p)), Args(p), response[p])
            /\ pc[p] \in {"returned", "raised"} /\ exception[p] # NoException =>
                 result[p] = (IF exception[p].type = "RequestError"
                              THEN OnRequestError(PlainGetOf(Tool(p)), request[p], exception[p])
                              ELSE OnException(PlainGetOf(Tool(p)), exception[p])).value

C19_Witness ==
    \E p \in Slots :
        /\ Done(p) /\ Tool(p) = "list_records"
        /\ Truthy(Args(p).filter_criteria) /\ Truthy(Args(p).sorts)
        /\ request[p] # NoRequest
        /\ request[p].json.m.data.m.filter = Args(p).filter_criteria
        /\ response[p] = [status_code |-> 404, text |-> Dumps(ErrorJson)]
        /\ result[p].m.details = ErrorJson

\* The identifiers (and target_type) the path of tool function t takes from args a.
IdentifiersOf(t, a) ==
    (IF t \in AttributesTools THEN {a.target_type} ELSE {})
        \cup (IF IdCount(t) >= 1 THEN {a.id1} ELSE {})
        \cup (IF IdCount(t) >= 2 THEN {a.id2} ELSE {})
        \cup (IF IdCount(t) >= 3 THEN {a.id3} ELSE {})
Pieces(s) == {s[i] : i \in 1..Len(s)}

\* C20: the request is determined by the tool, its arguments and the
\* configuration: two invocations with the same call issue the same request,
\* whatever was invoked before; the URL is BASE_URL followed by the tool's /v2
\* path with the identifiers put in unchanged.
C20_RequestDetermined ==
    /\ \A p, q \in Procs :
          call[p] = call[q] /\ request[p] # NoRequest /\ request[q] # NoRequest =>
              request[p] = request[q]
    /\ \A p \in Procs :
          request[p] # NoRequest =>
              LET t == Callee(Tool(p))
                  req == request[p]
              IN /\ req.method = HttpMethod(t)
                 /\ Head(req.url) = BASE_URL
                 /\ Tail(req.url) = Path(t, Args(p))
                 /\ IdentifiersOf(t, Args(p)) \subseteq Pieces(Tail(req.url))
                 /\ req.headers = Headers(t, API_KEY)
                 /\ req.params = Params(t, Args(p))
                 /\ req.json = Payload(t, Args(p))

C20_Witness ==
    /\ call[1] = call[2] /\ Tool(1) = "update_select_option"
    /\ pc[1] = "returned" /\ response[1] = [status_code |-> 404, text |-> Dumps(ErrorJson)]
    /\ pc[2] = "awaiting"
    /\ request[2] = request[1]
    /\ request[2].url = <<BASE_URL, "/v2/", "lists", "/", "abc", "/attributes/", "e1",
                          "/options/", "o1">>

\* The dict in which tool function t sends limit and offset: the params of a
\* GET list tool, the criteria in the body of a query tool.
PagingOf(t, req) == IF t \in QueryTools THEN CriteriaOf(t, req.json) ELSE req.params

\* C21: a list tool that takes limit and offset sends the caller's values as
\* they are, and returns the one page it received after its one request.
C21_PaginationVerbatim ==
    \A p \in Slots :
        Tool(p) \in PagedGetTools \cup QueryTools =>
            /\ netCalls[p] <= 1
            /\ request[p] # NoRequest =>
                 LET sent == PagingOf(Tool(p), request[p])
                 IN /\ sent.t = "obj"
                    /\ Has(sent, "limit") => sent.m.limit = Args(p).limit
                    /\ Has(sent, "offset") => sent.m.offset = Args(p).offset
                    /\ IsNotNone(Args(p).limit) => Has(sent, "limit")
                    /\ IsNotNone(Args(p).offset) => Has(sent, "offset")
            /\ Done(p) /\ response[p] # NoResponse /\ response[p].status_code = 200
                       /\ Loads(response[p].text).ok =>
                 /\ result[p] = Loads(response[p].text).val
                 /\ netCalls[p] = 1

C21_Witness ==
    \E p \in Slots :
        /\ Done(p) /\ Tool(p) = "list_select_options" /\ request[p] # NoRequest
        /\ Args(p).limit = JNum(500) /\ Args(p).offset = JNum(1)
        /\ request[p].params = JObj([limit |-> JNum(500), offset |-> JNum(1)])
        /\ response[p] = [status_code |-> 200, text |-> Dumps(ListJson)]
        /\ result[p] = ListJson /\ netCalls[p] = 1

\* The other tool of an overwrite / append pair.
PairOf(t) ==
    CASE t = "update_list_entry_overwrite" -> "update_list_entry_append"
      [] t = "update_list_entry_append" -> "update_list_entry_overwrite"
      [] t = "update_record_overwrite" -> "update_record_append"
      [] t = "update_record_append" -> "update_record_overwrite"
WithoutMethod(req) == [req EXCEPT !.method = ""]

\* C22: of the list-entry and the record update pairs, the overwrite tool sends
\* PUT and the append tool PATCH; URL, headers and the {"data": payload} body are
\* those of the other tool of the pair for the same arguments, and so is the
\* result for the same response or failure.
C22_OverwriteAppendPairs ==
    \A p \in Slots :
        Tool(p) \in {"update_list_entry_overwrite", "update_list_entry_append",
                    "update_record_overwrite", "update_record_append"} =>
            LET other == PairOf(Tool(p))
            IN /\ request[p] # NoRequest =>
                    /\ request[p].method =
                           (IF Tool(p) \in {"update_list_entry_overwrite",
                                            "update_record_overwrite"} THEN "PUT" ELSE "PATCH")
                    /\ BuildRequest(other, Args(p), API_KEY).method # request[p].method
                    /\ WithoutMethod(request[p])
                           = WithoutMethod(BuildRequest(other, Args(p), API_KEY))
                    /\ request[p].json = JObj([data |-> Args(p).data])
               /\ pc[p] \in {"returned", "raised"} /\ request[p] = NoRequest =>
                    result[p] = Rejection(other, Args(p), API_KEY)
               /\ Done(p) /\ response[p] # NoResponse =>
                    Returned(result[p]) = OnResponse(other, Args(p), response[p])
               /\ pc[p] \in {"returned", "raised"} /\ exception[p] # NoException =>
                    result[p] = (IF exception[p].type = "RequestError"
                                 THEN OnRequestError(other, request[p], exception[p])
                                 ELSE OnException(other, exception[p])).value

C22_Witness ==
    \E p \in Slots :
        /\ Done(p) /\ Tool(p) = "update_record_append" /\ request[p] # NoRequest
        /\ request[p].method = "PATCH"
        /\ request[p].url = <<BASE_URL, "/v2/objects/", "people", "/records/", "e1">>
        /\ request[p].json = JObj([data |-> JObj([name |-> Str("Ada")])])
        /\ BuildRequest("update_record_overwrite", Args(p), API_KEY).method = "PUT"
        /\ response[p] # NoResponse /\ response[p].status_code = 200

\* C23: in a target_type tool the credential check comes first: without a
\* credential the result is the ConfigurationError whatever the target_type, and
\* the ValidationError is returned only with a credential configured (and an
\* invalid target_type).
C23_CredentialCheckFirst ==
    \A p \in Slots :
        pc[p] \in {"returned", "raised"} /\ Tool(p) \in AttributesTools =>
            /\ ~Truthy(API_KEY) =>
                   /\ pc[p] = "returned" /\ result[p] = CredentialError
                   /\ result[p] # TargetTypeError /\ netCalls[p] = 0
            /\ result[p] = TargetTypeError =>
                   /\ Truthy(API_KEY)
                   /\ Args(p).target_type \notin {"objects", "lists"}
                   /\ netCalls[p] = 0

C23_Witness ==
    \E p \in Slots :
        /\ Done(p) /\ Tool(p) = "create_attribute"
        /\ API_KEY = JNull /\ Args(p).target_type = "object"
        /\ result[p] = CredentialError /\ netCalls[p] = 0

\* How the list_workspace_members call of test_attio_connection in slot p ended.
Underlying(p) ==
    LET t == "list_workspace_members"
    IN IF Rejection(t, Args(p), API_KEY) # NoResult
       THEN Returned(Rejection(t, Args(p), API_KEY))
       ELSE IF response[p] # NoResponse THEN OnResponse(t, Args(p), response[p])
       ELSE IF exception[p].type = "RequestError"
       THEN OnRequestError(t, request[p], exception[p])
       ELSE OnException(t, exception[p])
\* v has the member 'error': a key of a dict, an element of a list.
HasErrorMember(v) ==
    \/ v.t = "obj" /\ "error" \in DOMAIN v.m
    \/ v.t = "arr" /\ \E i \in 1..Len(v.a) : v.a[i] = Str("error")

\* C24: test_attio_connection makes at most one network call, never raises, and
\* returns status 'success' exactly when the value list_workspace_members
\* returned has no member 'error'; otherwise status 'error', with that value as
\* 'details' and no network call when the credential is absent.
C24_ConnectionTest ==
    \A p \in Slots :
        Tool(p) = "test_attio_connection" =>
            /\ netCalls[p] <= 1 /\ pc[p] # "raised"
            /\ Done(p) =>
                 /\ Has(result[p], "status")
                 /\ result[p].m.status \in {Str("success"), Str("error")}
                 /\ (result[p].m.status = Str("success"))
                        <=> ~HasErrorMember(Underlying(p).value)
                 /\ ~Truthy(API_KEY) =>
                        /\ netCalls[p] = 0 /\ result[p].m.status = Str("error")
                        /\ result[p].m.details = CredentialError

\* C25: health_check returns at once with its 'healthy' result, the same in
\* every state: whatever API_KEY is and whatever the other invocation met; it
\* makes no request and opens no client.
C25_HealthCheck ==
    \A p \in Procs :
        Tool(p) = "health_check" =>
            /\ Done(p) /\ result[p] = HealthCheck
            /\ result[p] = JObj([status |-> Str("healthy"),
                                 message |-> Str("AttioMCP server is running with all tools")])
            /\ netCalls[p] = 0 /\ request[p] = NoRequest /\ ~clientOpen[p]
            /\ response[p] = NoResponse /\ exception[p] = NoException

C25_Witness ==
    /\ Tool(1) = "health_check" /\ Done(1) /\ result[1] = HealthCheck /\ netCalls[1] = 0
    /\ Tool(2) = "get_note" /\ Done(2) /\ exception[2] # NoException
    /\ exception[2].type = "RequestError"

\* Arguments a with an empty filter_criteria or sorts replaced by None.
EmptyAsOmitted(a) ==
    [a EXCEPT !.filter_criteria = IF Truthy(@) THEN @ ELSE JNull,
              !.sorts = IF Truthy(@) THEN @ ELSE JNull]

\* C26: the body of list_records is {"data": {...}} and nothing else at top
\* level; inside 'data', limit and offset always, filter exactly when
\* filter_criteria is non-empty, sorts exactly when sorts is non-empty; both
\* query tools send an empty filter or sorts as they send an omitted one.
C26_ListRecordsBody ==
    \A p \in Slots :
        Tool(p) \in QueryTools /\ request[p] # NoRequest =>
            /\ request[p] = BuildRequest(Tool(p), EmptyAsOmitted(Args(p)), API_KEY)
            /\ Loads(request[p].content) = [ok |-> TRUE, val |-> request[p].json]
            /\ Tool(p) = "list_records" =>
                 LET body == request[p].json
                     d == body.m.data
                 IN /\ DOMAIN body.m = {"data"}
                    /\ d.t = "obj"
                    /\ DOMAIN d.m = {"limit", "offset"}
                          \cup (IF Truthy(Args(p).filter_criteria) THEN {"filter"} ELSE {})
                          \cup (IF Truthy(Args(p).sorts) THEN {"sorts"} ELSE {})
                    /\ d.m.limit = Args(p).limit /\ d.m.offset = Args(p).offset
                    /\ Has(d, "filter") => d.m.filter = Args(p).filter_criteria
                    /\ Has(d, "sorts") => d.m.sorts = Args(p).sorts

C26_Witness ==
    \E p \in Slots :
        /\ pc[p] = "awaiting" /\ Tool(p) = "list_records"
        /\ Args(p).filter_criteria = EmptyDict /\ Args(p).sorts = JArr(<<>>)
        /\ request[p].json = JObj([data |-> JObj([limit |-> JNum(500), offset |-> JNum(0)])])
        /\ request[p].content = Dumps(JObj([data |-> JObj([limit |-> JNum(500),
                                                           offset |-> JNum(0)])]))

C28_RedirectNotFollowed ==
    \A p \in Slots :
        pc[p] \in {"returned", "raised"} /\ Tool(p) \in ApiTools /\ response[p] # NoResponse
                /\ response[p].status_code \notin 200..299 =>
            /\ pc[p] = "returned" /\ netCalls[p] = 1
            /\ IsUpstreamStatusError(result[p], response[p].status_code)
            /\ result[p].m.error.s[2] = ToString(response[p].status_code)
            /\ LET as404 == OnHTTPStatusError(Tool(p), Args(p),
                                              [response[p] EXCEPT !.status_code = 404])
               IN /\ result[p].m.details = as404.m.details
                  /\ result[p].m.error.s[1] = as404.m.error.s[1]
                  /\ DOMAIN result[p].m = DOMAIN as404.m

C28_Witness ==
    \E p \in Slots :
        /\ Done(p) /\ Tool(p) = "get_object" /\ netCalls[p] = 1
        /\ response[p] = [status_code |-> 301, text |-> EmptyText]
        /\ result[p] = JObj([error |-> JStr(<<"API request failed: ", "301">>),
                             details |-> JStr(<<>>)])

\* C29: the registered tool attio_<t> passes each argument it was given on to
\* tool function t under the same parameter, puts the default of its own
\* signature in the place of an argument the caller left out (limit 10 for
\* attio_list_records, not the 500 of list_records), makes no network call
\* besides the one of the tool function, and ends as the tool function ends,
\* with the same value.
C29_PassThrough ==
    \A p \in Slots :
        pc[p] # "idle" =>
            LET t == Tool(p)
                g == given[p]
                isOut(f) == f \in {"filter_criteria", "sorts", "limit", "offset"} /\ g[f] = Omitted
                expected ==
                    [f \in DOMAIN g |->
                        IF ~isOut(f) THEN g[f]
                        ELSE IF f = "limit" THEN (IF t \in QueryTools THEN JNum(10) ELSE JNum(50))
                        ELSE IF f = "offset" THEN JNum(0)
                        ELSE JNull]
            IN /\ g # NotRegistered /\ t \in RegisteredTools
               /\ Args(p) = expected
               /\ netCalls[p] = (IF Rejection(t, expected, API_KEY) = NoResult THEN 1 ELSE 0)
               /\ netCalls[p] = 1 => request[p] = BuildRequest(t, expected, API_KEY)
               /\ t = "list_records" /\ g.limit = Omitted /\ netCalls[p] = 1 =>
                    request[p].json.m.data.m.limit = JNum(10)
               /\ pc[p] \in {"returned", "raised"} =>
                    /\ result[p] = Alone(p).value
                    /\ (pc[p] = "raised") = (Alone(p).kind = "raise")

C29_Witness ==
    \E p \in Slots :
        /\ Done(p) /\ Tool(p) = "list_records" /\ netCalls[p] = 1
        /\ given[p].limit = Omitted /\ given[p].offset = JNum(1)
        /\ given[p].filter_criteria = Omitted /\ given[p].sorts = Omitted
        /\ request[p].json = JObj([data |-> JObj([limit |-> JNum(10), offset |-> JNum(1)])])
        /\ response[p] = [status_code |-> 200, text |-> Dumps(ListJson)]
        /\ result[p] = ListJson
====
